---- MODULE Spec2Model ----
(***************************************************************************)
(* A model of src/server.js, the trading signals server: the in-memory     *)
(* stores (signals, positions, activeConnections), the HTTP handlers that  *)
(* change them, the WebSocket connection handler, the two broadcast        *)
(* functions and the price ticker.                                         *)
(*                                                                         *)
(* Node runs every handler to completion on one thread, so each handler    *)
(* without an await is one atomic action.  Prices are kept in hundredths   *)
(* (3893.45 is 389345).  A ws.send that throws is an input of the handler: *)
(* failN is the ordinal of the send attempt, within the handler, that      *)
(* throws (0: none does).  Whatever the handler, its first throw ends      *)
(* every later send of that handler, so one ordinal covers all outcomes.   *)
(***************************************************************************)
EXTENDS Integers, Sequences, FiniteSets, TLC

\* ------------------------------------------------------------ bounds
MaxConns == 2
MaxSteps == 5
MaxSigSteps == 104
MaxInitSteps == 24
MaxReadSteps == 9
MaxTradeSteps == 5
MaxLogins == 2

\* ------------------------------------------------- program constants
SignalCap == 50
RecentWindow == 3600000
InitSlice == 10
BuyEntry == 389345
SellEntry == 389320
StartPrice == 389345
ContractMult == 100

JWT_SECRET == "secret"
MT4_API_KEY == "mt4key"

\* --------------------------------------------------------- input sets
\* Types and RandomChanges are what a request and Math.random() can give; the
\* whole-server specification below draws one value of each.
Conns == 1..MaxConns
Accounts == {"acc1", "acc2"}
NoToken == [kind |-> "none", accountNumber |-> "", signedWith |-> ""]
Jwt(a, k) == [kind |-> "jwt", accountNumber |-> a, signedWith |-> k]
Tokens == {NoToken, Jwt("acc1", "forged")} \cup {Jwt(a, JWT_SECRET) : a \in Accounts}
ApiKeys == {MT4_API_KEY, "wrong"}
Payload(p, a) == [pair |-> p, action |-> a, rsi |-> 30, macd |-> 1, strength |-> 2, quality |-> 3]
NoSignal == [pair |-> "undefined"]
Signals == {Payload("XAUUSD", "BUY"), NoSignal}
Types == {"BUY", "SELL"}
Lots == {1}
TradeLots == {1, 2}
RandomChanges == {-50, 75}
Logins == 1..MaxLogins
Passwords == {"pw1", "pw2"}

VARIABLES
    now,               \* Date.now()
    signals,           \* the signals array
    positions,         \* the positions Map, in insertion order
    activeConnections, \* the activeConnections Map, in insertion order
    readyState,        \* ws.readyState of every connection ("NONE": not yet made)
    urlToken,          \* the token of the connection's URL
    closeListener,     \* whether ws.on('close', ...) was reached
    closeEmitted,      \* whether the connection's 'close' event was emitted
    sent,              \* per connection, the messages written to its socket, in order
    crashed,           \* an exception left a timer callback: the process is gone
    response,          \* the status answered by the handler that ran last (0: not HTTP)
    calls,             \* how many broadcast calls were made so far
    lastCalls,         \* the broadcast calls made by the handler that ran last
    accepted,          \* every signal pushed so far, in order
    steps,             \* how many handlers ran so far
    request,           \* the close or ingest request served by the handler that ran last, if it was one
    body,              \* what the handler that ran last passed to res.json, when it is checked
    closedRefs,        \* the position objects removed by a close request so far
    users,             \* the users Map, in insertion order
    logins             \* per login request: where its handler is, and its locals

vars == <<now, signals, positions, activeConnections, readyState, urlToken,
          closeListener, closeEmitted, sent, crashed, response, calls,
          lastCalls, accepted, steps, request, body, closedRefs, users, logins>>

\* ------------------------------------------------------------ helpers
Min(a, b) == IF a < b THEN a ELSE b

\* Array.prototype.slice(0, n): the first n, not the last
SliceFirst(s, n) == SubSeq(s, 1, Min(n, Len(s)))

\* Array.prototype.slice(-n)
SliceLast(s, n) == SubSeq(s, Len(s) - Min(n, Len(s)) + 1, Len(s))

\* Array.prototype.shift(): the array without its first element
Shift(s) == SubSeq(s, 2, Len(s))

\* Map.prototype.set on a Map kept as the sequence of its entries
MapIndex(m, k) == IF \E i \in 1..Len(m) : m[i].key = k
                  THEN CHOOSE i \in 1..Len(m) : m[i].key = k
                  ELSE 0
MapHas(m, k) == MapIndex(m, k) # 0
MapGet(m, k) == m[MapIndex(m, k)].val
MapSet(m, k, v) ==
    IF MapHas(m, k) THEN [m EXCEPT ![MapIndex(m, k)] = [key |-> k, val |-> v]]
    ELSE Append(m, [key |-> k, val |-> v])
MapDelete(m, k) ==
    LET F[i \in 0..Len(m)] ==
            IF i = 0 THEN <<>>
            ELSE IF m[i].key # k THEN Append(F[i - 1], m[i]) ELSE F[i - 1]
    IN F[Len(m)]
MapKeys(m) == {m[i].key : i \in 1..Len(m)}

\* jwt.verify as jwt.decode would do it: the payload, whoever signed the token
jwtDecodeOnly(t) ==
    IF t.kind = "jwt"
    THEN [ok |-> TRUE, accountNumber |-> t.accountNumber, broker |-> "Demo"]
    ELSE [ok |-> FALSE, accountNumber |-> "", broker |-> ""]

\* jwt.verify(token, JWT_SECRET): the payload, or an error thrown
jwtVerify(t) ==
    IF t.kind = "jwt" /\ t.signedWith = JWT_SECRET
    THEN [ok |-> TRUE, accountNumber |-> t.accountNumber, broker |-> "Demo"]
    ELSE [ok |-> FALSE, accountNumber |-> "", broker |-> ""]

\* ------------------------------------------------------------- sending
\* The state a handler threads through its sends.
Io(s, n, c) ==
    [sent |-> s, attempts |-> 0, failN |-> n, thrown |-> FALSE, thrower |-> 0, call |-> c]

\* ws.send writing ahead of what the socket already holds
wsSendAhead(io, ws, msg) ==
    IF io.attempts + 1 = io.failN
    THEN [io EXCEPT !.attempts = @ + 1, !.thrown = TRUE, !.thrower = ws]
    ELSE [io EXCEPT !.attempts = @ + 1,
                    !.sent[ws] = <<[call |-> io.call, msg |-> msg]>> \o @]

\* ws.send(JSON.stringify(msg)): written to the socket after what was written
\* before, or an exception.
wsSend(io, ws, msg) ==
    IF io.attempts + 1 = io.failN
    THEN [io EXCEPT !.attempts = @ + 1, !.thrown = TRUE, !.thrower = ws]
    ELSE [io EXCEPT !.attempts = @ + 1,
                    !.sent[ws] = Append(@, [call |-> io.call, msg |-> msg])]

SignalMsg(signal) == [type |-> "signal", data |-> signal]
PositionMsg(position) == [type |-> "position", data |-> position]
InitMsg(sigs) == [type |-> "init", signals |-> sigs]

\* the test of broadcastSignal's callback
SignalTarget(rs, e) == rs[e.key] = "OPEN"

\* the test of broadcastPosition's callback
PositionTarget(rs, e, accountNumber) ==
    rs[e.key] = "OPEN" /\ e.val.accountNumber = accountNumber

\* activeConnections.forEach of broadcastSignal, from entry i on; an exception
\* leaves the loop
RECURSIVE SignalLoop(_, _, _, _, _)
SignalLoop(io, acs, rs, signal, i) ==
    IF i > Len(acs) \/ io.thrown THEN io
    ELSE SignalLoop(IF SignalTarget(rs, acs[i])
                    THEN wsSend(io, acs[i].key, SignalMsg(signal))
                    ELSE io,
                    acs, rs, signal, i + 1)

broadcastSignal(io, acs, rs, signal) ==
    IF io.thrown THEN io ELSE SignalLoop(io, acs, rs, signal, 1)

RECURSIVE PositionLoop(_, _, _, _, _, _)
PositionLoop(io, acs, rs, position, accountNumber, i) ==
    IF i > Len(acs) \/ io.thrown THEN io
    ELSE PositionLoop(IF PositionTarget(rs, acs[i], accountNumber)
                      THEN wsSend(io, acs[i].key, PositionMsg(position))
                      ELSE io,
                      acs, rs, position, accountNumber, i + 1)

broadcastPosition(io, acs, rs, position, accountNumber) ==
    IF io.thrown THEN io ELSE PositionLoop(io, acs, rs, position, accountNumber, 1)

\* What one broadcast call did, kept for the properties: who was registered and
\* OPEN (and of the account) when it was made, and what each socket got from it.
CallRecord(fn, n, data, account, acs, rs, before, after) ==
    [fn |-> fn, call |-> n, data |-> data, account |-> account,
     registered |-> MapKeys(acs),
     open |-> {c \in Conns : rs[c] = "OPEN"},
     bound |-> {c \in MapKeys(acs) : MapGet(acs, c).accountNumber = account},
     thrower |-> IF after.thrown /\ ~before.thrown THEN after.thrower ELSE 0,
     got |-> [c \in Conns |->
                SubSeq(after.sent[c], Len(before.sent[c]) + 1, Len(after.sent[c]))]]

NoRequest == [op |-> "none", accountNumber |-> "", positionId |-> ""]

NoBody == [json |-> "none", items |-> <<>>]

\* the value of users.get for an account that has no user
NoUser == [accountNumber |-> "", password |-> [plain |-> "", salt |-> 0], createdAt |-> 0]

\* a login request that has not arrived
NoLogin == [pc |-> "idle", accountNumber |-> "", password |-> "", user |-> NoUser,
            status |-> 0]

\* ---------------------------------------------------------------- Init
Init ==
    /\ now = 1
    /\ signals = <<>>
    /\ positions = <<>>
    /\ activeConnections = <<>>
    /\ readyState = [c \in Conns |-> "NONE"]
    /\ urlToken = [c \in Conns |-> NoToken]
    /\ closeListener = [c \in Conns |-> FALSE]
    /\ closeEmitted = [c \in Conns |-> FALSE]
    /\ sent = [c \in Conns |-> <<>>]
    /\ crashed = FALSE
    /\ response = 0
    /\ body = NoBody
    /\ closedRefs = {}
    /\ users = <<>>
    /\ logins = [r \in Logins |-> NoLogin]
    /\ calls = 0
    /\ lastCalls = <<>>
    /\ accepted = <<>>
    /\ steps = 0
    /\ request = NoRequest

\* ------------------------------------------- the connection handler
\* activeConnections.set(ws, decoded)
Register(acs, ws, decoded) ==
    MapSet(acs, ws, [accountNumber |-> decoded.accountNumber, broker |-> decoded.broker])

\* a close callback that leaves the Map as it is
OnCloseKeep(acs, ws) == acs

\* the callback of ws.on('close', ...)
OnClose(acs, ws) == MapDelete(acs, ws)

\* wss.on('connection'): the URL's token is t; the 'init' send throws iff failN = 1
OnConnection(c, t, failN) ==
    /\ ~crashed
    /\ request' = NoRequest
    /\ UNCHANGED closedRefs
    /\ UNCHANGED <<users, logins>>
    /\ body' = NoBody
    /\ readyState[c] = "NONE"
    /\ LET decoded == jwtVerify(t)
           verified == t.kind # "none" /\ decoded.ok
           io == IF verified
                 THEN wsSend(Io(sent, failN, 0), c, InitMsg(SliceLast(signals, InitSlice)))
                 ELSE Io(sent, 0, 0)
           listening == verified /\ ~io.thrown
       IN /\ urlToken' = [urlToken EXCEPT ![c] = t]
          /\ activeConnections' = IF verified
                                  THEN Register(activeConnections, c, decoded)
                                  ELSE activeConnections
          /\ sent' = io.sent
          /\ closeListener' = [closeListener EXCEPT ![c] = listening]
          \* ws.close() starts the closing handshake
          /\ readyState' = [readyState EXCEPT ![c] = IF listening THEN "OPEN" ELSE "CLOSING"]
    /\ response' = 0
    /\ lastCalls' = <<>>
    /\ UNCHANGED <<now, signals, positions, closeEmitted, crashed, calls, accepted>>

\* The peer starts the closing handshake: the socket is no longer OPEN, and its
\* 'close' event is still to come.
PeerClosing(c) ==
    /\ ~crashed
    /\ request' = NoRequest
    /\ UNCHANGED closedRefs
    /\ UNCHANGED <<users, logins>>
    /\ body' = NoBody
    /\ readyState[c] = "OPEN"
    /\ readyState' = [readyState EXCEPT ![c] = "CLOSING"]
    /\ response' = 0
    /\ lastCalls' = <<>>
    /\ UNCHANGED <<now, signals, positions, activeConnections, urlToken, closeListener,
                   closeEmitted, sent, crashed, calls, accepted>>

\* The transport closes: ws emits 'close', which runs the listener if there is one.
TransportClose(c) ==
    /\ ~crashed
    /\ request' = NoRequest
    /\ UNCHANGED closedRefs
    /\ UNCHANGED <<users, logins>>
    /\ body' = NoBody
    /\ readyState[c] \in {"OPEN", "CLOSING"}
    /\ readyState' = [readyState EXCEPT ![c] = "CLOSED"]
    /\ closeEmitted' = [closeEmitted EXCEPT ![c] = TRUE]
    /\ activeConnections' = IF closeListener[c]
                            THEN OnClose(activeConnections, c)
                            ELSE activeConnections
    /\ response' = 0
    /\ lastCalls' = <<>>
    /\ UNCHANGED <<now, signals, positions, urlToken, closeListener, sent, crashed,
                   calls, accepted>>

\* ------------------------------------------------------ POST /api/auth/login
\* bcrypt.hash(password, 10): the hash of the password under a salt of its own
bcryptHash(password, salt) == [plain |-> password, salt |-> salt]

\* bcrypt.compare(password, hash)
bcryptCompare(password, hash) == hash.plain = password

\* what the login handlers leave alone
LoginKeeps ==
    /\ request' = NoRequest
    /\ body' = NoBody
    /\ lastCalls' = <<>>
    /\ UNCHANGED <<now, signals, positions, activeConnections, readyState, urlToken,
                   closeListener, closeEmitted, sent, crashed, calls, accepted, steps,
                   closedRefs>>

\* The handler up to its first await: users.get, then bcrypt.hash for an unknown
\* account and bcrypt.compare for a known one.
LoginStart(r, accountNumber, password) ==
    /\ ~crashed
    /\ logins[r].pc = "idle"
    /\ logins' = [logins EXCEPT ![r] =
                    [pc |-> IF MapHas(users, accountNumber) THEN "compare" ELSE "hash",
                     accountNumber |-> accountNumber, password |-> password,
                     user |-> IF MapHas(users, accountNumber)
                              THEN MapGet(users, accountNumber) ELSE NoUser,
                     status |-> 0]]
    /\ response' = 0
    /\ UNCHANGED users
    /\ LoginKeeps

\* bcrypt.hash resolved: the user is made and stored, then bcrypt.compare awaited
LoginHashed(r) ==
    /\ ~crashed
    /\ logins[r].pc = "hash"
    /\ LET user == [accountNumber |-> logins[r].accountNumber,
                    password |-> bcryptHash(logins[r].password, r),
                    createdAt |-> now]
       IN /\ users' = MapSet(users, logins[r].accountNumber, user)
          /\ logins' = [logins EXCEPT ![r].pc = "compare", ![r].user = user]
    /\ response' = 0
    /\ LoginKeeps

\* bcrypt.compare resolved: 401, or the token
LoginCompared(r) ==
    /\ ~crashed
    /\ logins[r].pc = "compare"
    /\ LET isValid == bcryptCompare(logins[r].password, logins[r].user.password)
       IN /\ logins' = [logins EXCEPT ![r].pc = "done",
                                      ![r].status = IF isValid THEN 200 ELSE 401]
          /\ response' = IF isValid THEN 200 ELSE 401
    /\ UNCHANGED users
    /\ LoginKeeps

\* ------------------------------------------------------ GET /api/signals
\* authenticateToken: the status it answers, or 0 when it calls next()
authenticateToken(t) ==
    IF t.kind = "none" THEN 401
    ELSE IF ~jwtVerify(t).ok THEN 403
    ELSE 0

\* a filter that keeps the signal whose age is the whole window
IsRecentInclusive(s, t) == t - s.timestamp <= RecentWindow

\* the callback of signals.filter
IsRecent(s, t) == t - s.timestamp < RecentWindow

\* signals.filter(s => Date.now() - s.timestamp < 3600000)
RecentSignals(sigs, t) ==
    LET F[i \in 0..Len(sigs)] ==
            IF i = 0 THEN <<>>
            ELSE IF IsRecent(sigs[i], t)
                 THEN Append(F[i - 1], sigs[i])
                 ELSE F[i - 1]
    IN F[Len(sigs)]

GetSignals(t) ==
    /\ ~crashed
    /\ request' = NoRequest
    /\ UNCHANGED closedRefs
    /\ UNCHANGED <<users, logins>>
    /\ IF authenticateToken(t) # 0
       THEN /\ response' = authenticateToken(t)
            /\ body' = [json |-> "error", items |-> <<>>]
       ELSE /\ response' = 200
            /\ body' = [json |-> "signals", items |-> RecentSignals(signals, now)]
    /\ lastCalls' = <<>>
    /\ UNCHANGED <<now, signals, positions, activeConnections, readyState, urlToken,
                   closeListener, closeEmitted, sent, crashed, calls, accepted>>

\* ------------------------------------------------------ POST /api/signals
NewSignal(signal, t) ==
    [id |-> ToString(t), pair |-> signal.pair, action |-> signal.action,
     rsi |-> signal.rsi, macd |-> signal.macd, strength |-> signal.strength,
     quality |-> signal.quality, timestamp |-> t]

\* the push without the shift
PushSignalNoShift(sigs, newSignal) == Append(sigs, newSignal)

\* the push with pop() in the place of shift(): the newest signal goes
PushSignalPop(sigs, newSignal) ==
    LET pushed == Append(sigs, newSignal)
    IN IF Len(pushed) > SignalCap THEN SubSeq(pushed, 1, Len(pushed) - 1) ELSE pushed

\* signals.push(newSignal); if (signals.length > 50) signals.shift()
PushSignal(sigs, newSignal) ==
    LET pushed == Append(sigs, newSignal)
    IN IF Len(pushed) > SignalCap THEN Shift(pushed) ELSE pushed

PostSignals(apiKey, signal, failN) ==
    /\ ~crashed
    /\ request' = [op |-> "ingest", accountNumber |-> "", positionId |-> ""]
    /\ UNCHANGED closedRefs
    /\ UNCHANGED <<users, logins>>
    /\ body' = NoBody
    /\ IF apiKey # MT4_API_KEY
       THEN /\ response' = 401
            /\ lastCalls' = <<>>
            /\ UNCHANGED <<signals, sent, calls, accepted>>
       ELSE IF signal = NoSignal
       THEN \* signal.pair of undefined throws: caught
            /\ response' = 500
            /\ lastCalls' = <<>>
            /\ UNCHANGED <<signals, sent, calls, accepted>>
       ELSE LET newSignal == NewSignal(signal, now)
                before == Io(sent, failN, calls + 1)
                after == broadcastSignal(before, activeConnections, readyState, newSignal)
            IN /\ signals' = PushSignal(signals, newSignal)
               /\ accepted' = Append(accepted, newSignal)
               /\ sent' = after.sent
               /\ calls' = calls + 1
               /\ lastCalls' = <<CallRecord("broadcastSignal", calls + 1, newSignal, "",
                                            activeConnections, readyState, before, after)>>
               /\ response' = IF after.thrown THEN 500 ELSE 200
    /\ UNCHANGED <<now, positions, activeConnections, readyState, urlToken,
                   closeListener, closeEmitted, crashed>>

\* ------------------------------------------------------ GET /api/positions
\* Array.from(positions.values()).filter(p => p.accountNumber === accountNumber)
ListPositions(ps, accountNumber) ==
    LET F[i \in 0..Len(ps)] ==
            IF i = 0 THEN <<>>
            ELSE IF ps[i].val.accountNumber = accountNumber
                 THEN Append(F[i - 1], ps[i].val)
                 ELSE F[i - 1]
    IN F[Len(ps)]

\* ------------------------------------------------------ POST /api/trade/open
\* ref stands for the identity of the object created: no two are given the same
NewPosition(accountNumber, type, lots, t, ref) ==
    [ref |-> ref, id |-> ToString(t), accountNumber |-> accountNumber, pair |-> "XAUUSD",
     type |-> type, lots |-> lots,
     entryPrice |-> IF type = "BUY" THEN BuyEntry ELSE SellEntry,
     currentPrice |-> StartPrice, profit |-> 0, openTime |-> t]

PostTradeOpen(accountNumber, type, lots, failN) ==
    /\ ~crashed
    /\ request' = NoRequest
    /\ UNCHANGED closedRefs
    /\ UNCHANGED <<users, logins>>
    /\ body' = NoBody
    /\ LET position == NewPosition(accountNumber, type, lots, now, calls + 1)
           before == Io(sent, failN, calls + 1)
           after == broadcastPosition(before, activeConnections, readyState,
                                      position, accountNumber)
       IN /\ positions' = MapSet(positions, position.id, position)
          /\ sent' = after.sent
          /\ calls' = calls + 1
          /\ lastCalls' = <<CallRecord("broadcastPosition", calls + 1, position,
                                       accountNumber, activeConnections, readyState,
                                       before, after)>>
          /\ response' = IF after.thrown THEN 500 ELSE 200
    /\ UNCHANGED <<now, signals, activeConnections, readyState, urlToken, closeListener,
                   closeEmitted, crashed, accepted>>

\* ----------------------------------------- POST /api/trade/close/:positionId
\* the test without the owner's check
CloseRefusedIfMissing(ps, positionId, accountNumber) == ~MapHas(ps, positionId)

\* !position || position.accountNumber !== accountNumber
CloseRefused(ps, positionId, accountNumber) ==
    ~MapHas(ps, positionId) \/ MapGet(ps, positionId).accountNumber # accountNumber

\* a delete that leaves the Map as it is
RemovePositionKept(ps, positionId) == ps

\* positions.delete(positionId)
RemovePosition(ps, positionId) == MapDelete(ps, positionId)

PostTradeClose(accountNumber, positionId) ==
    /\ ~crashed
    /\ request' = [op |-> "close", accountNumber |-> accountNumber,
                   positionId |-> positionId]
    /\ body' = NoBody
    /\ UNCHANGED <<users, logins>>
    /\ IF CloseRefused(positions, positionId, accountNumber)
       THEN /\ response' = 404
            /\ UNCHANGED <<positions, closedRefs>>
       ELSE /\ positions' = RemovePosition(positions, positionId)
            /\ closedRefs' = closedRefs \cup {MapGet(positions, positionId).ref}
            /\ response' = 200
    /\ lastCalls' = <<>>
    /\ UNCHANGED <<now, signals, activeConnections, readyState, urlToken, closeListener,
                   closeEmitted, sent, crashed, calls, accepted>>

\* ------------------------------------------------------------ the ticker
\* an update that takes every position for a long one
UpdatePositionLong(position, randomChange) ==
    LET currentPrice == position.currentPrice + randomChange
    IN [position EXCEPT !.currentPrice = currentPrice,
                        !.profit = (currentPrice - position.entryPrice)
                                       * position.lots * ContractMult]

\* One position's update: the price moved by randomChange, the profit recomputed.
UpdatePosition(position, randomChange) ==
    LET currentPrice == position.currentPrice + randomChange
        priceDiff == IF position.type = "BUY"
                     THEN currentPrice - position.entryPrice
                     ELSE position.entryPrice - currentPrice
    IN [position EXCEPT !.currentPrice = currentPrice,
                        !.profit = priceDiff * position.lots * ContractMult]

\* positions.forEach of the timer callback, from entry i on.  st holds the Map, the
\* sends so far, the call count and the calls made.  An exception leaves the loop
\* with the positions before i, and i itself, already updated.
RECURSIVE TickLoop(_, _, _)
TickLoop(st, changes, i) ==
    IF i > Len(st.positions) \/ st.io.thrown THEN st
    ELSE LET position == UpdatePosition(st.positions[i].val, changes[i])
             before == [st.io EXCEPT !.call = st.calls + 1]
             after == broadcastPosition(before, activeConnections, readyState,
                                        position, position.accountNumber)
         IN TickLoop([positions |-> [st.positions EXCEPT ![i].val = position],
                      io |-> after,
                      calls |-> st.calls + 1,
                      log |-> Append(st.log,
                                     CallRecord("broadcastPosition", st.calls + 1, position,
                                                position.accountNumber, activeConnections,
                                                readyState, before, after))],
                     changes, i + 1)

Tick(changes, failN) ==
    /\ ~crashed
    /\ request' = NoRequest
    /\ UNCHANGED closedRefs
    /\ UNCHANGED <<users, logins>>
    /\ body' = NoBody
    /\ positions # <<>>
    /\ LET st == TickLoop([positions |-> positions, io |-> Io(sent, failN, calls),
                           calls |-> calls, log |-> <<>>], changes, 1)
       IN /\ positions' = st.positions
          /\ sent' = st.io.sent
          /\ calls' = st.calls
          /\ lastCalls' = st.log
          \* nothing catches an exception thrown in a timer callback
          /\ crashed' = st.io.thrown
    /\ response' = 0
    /\ UNCHANGED <<now, signals, activeConnections, readyState, urlToken, closeListener,
                   closeEmitted, accepted>>

\* ------------------------------------------------------------ the clock
\* d milliseconds pass
Elapse(d) ==
    /\ ~crashed
    /\ request' = NoRequest
    /\ UNCHANGED closedRefs
    /\ UNCHANGED <<users, logins>>
    /\ body' = NoBody
    /\ now' = now + d
    /\ response' = 0
    /\ lastCalls' = <<>>
    /\ UNCHANGED <<signals, positions, activeConnections, readyState, urlToken,
                   closeListener, closeEmitted, sent, crashed, calls, accepted>>

AdvanceClock == Elapse(1)

\* ----------------------------------------------------- the specification
\* One more handler runs, while fewer than bound have.
Step(bound) == steps < bound /\ steps' = steps + 1

\* Connections are numbered in the order in which they arrive.
Connect(bound) ==
    /\ Step(bound)
    /\ \E c \in Conns, t \in Tokens, failN \in 0..1 :
        /\ \A d \in Conns : d < c => readyState[d] # "NONE"
        /\ OnConnection(c, t, failN)

Closing(bound) == Step(bound) /\ \E c \in Conns : PeerClosing(c)

Closed(bound) == Step(bound) /\ \E c \in Conns : TransportClose(c)

Ingest(bound, keys, bodies) ==
    /\ Step(bound)
    /\ \E apiKey \in keys, signal \in bodies :
        \* no send is attempted unless the request is accepted
        \E failN \in 0..(IF apiKey = MT4_API_KEY /\ signal # NoSignal
                          THEN Len(activeConnections) ELSE 0) :
            PostSignals(apiKey, signal, failN)

Open(bound, types, sizes) ==
    /\ Step(bound)
    /\ \E accountNumber \in Accounts, type \in types, lots \in sizes,
          failN \in 0..Len(activeConnections) :
        PostTradeOpen(accountNumber, type, lots, failN)

Close(bound) ==
    /\ Step(bound)
    /\ \E accountNumber \in Accounts, positionId \in MapKeys(positions) \cup {"0"} :
        PostTradeClose(accountNumber, positionId)

Ticker(bound, randomChanges) ==
    /\ Step(bound)
    /\ \E changes \in [1..Len(positions) -> randomChanges],
          failN \in 0..(Len(positions) * Len(activeConnections)) :
        Tick(changes, failN)

Clock(bound) == Step(bound) /\ AdvanceClock

\* The whole server.
Next ==
    \/ Connect(MaxSteps)
    \/ Closing(MaxSteps)
    \/ Closed(MaxSteps)
    \/ Ingest(MaxSteps, {MT4_API_KEY}, {Payload("XAUUSD", "BUY")})
    \/ Open(MaxSteps, {"BUY"}, Lots)
    \/ Close(MaxSteps)
    \/ Ticker(MaxSteps, {75})
    \/ Clock(MaxSteps)

Spec == Init /\ [][Next]_vars

\* The signal feed alone, long enough to fill the signals array and go past its
\* cap: one signal per millisecond, so that every stored signal differs from the
\* others, and requests with a wrong key or without a signal in between.
FeedIngest ==
    /\ now = Len(accepted) + 1
    /\ Ingest(MaxSigSteps, ApiKeys, Signals)

FeedClock ==
    /\ now <= Len(accepted)
    /\ Clock(MaxSigSteps)

NextSignals ==
    \/ FeedIngest
    \/ FeedClock

SpecSignals == Init /\ [][NextSignals]_vars

\* The feed and one client: long enough for the client to arrive when more than
\* ten signals are stored, and to get signals after that.
ClientConnect ==
    /\ Step(MaxInitSteps)
    /\ \E t \in Tokens, failN \in 0..1 : OnConnection(1, t, failN)

ClientIngest ==
    /\ now = Len(accepted) + 1
    /\ Ingest(MaxInitSteps, {MT4_API_KEY}, {Payload("XAUUSD", "BUY")})

ClientClock ==
    /\ now <= Len(accepted)
    /\ Clock(MaxInitSteps)

NextClient ==
    \/ ClientConnect
    \/ ClientIngest
    \/ ClientClock
    \/ Closing(MaxInitSteps)
    \/ Closed(MaxInitSteps)

SpecClient == Init /\ [][NextClient]_vars

\* The feed read by a client, with signals younger than the window, as old as it
\* and older.
ReadIngest ==
    /\ now # IF accepted = <<>> THEN 0 ELSE accepted[Len(accepted)].timestamp
    /\ Ingest(MaxReadSteps, {MT4_API_KEY}, {Payload("XAUUSD", "BUY")})

ReadClock == Step(MaxReadSteps) /\ \E d \in {1, RecentWindow - 1} : Elapse(d)

Read == Step(MaxReadSteps) /\ \E t \in Tokens : GetSignals(t)

NextRead ==
    \/ ReadIngest
    \/ ReadClock
    \/ Read

SpecRead == Init /\ [][NextRead]_vars

\* The trading handlers and the ticker, with both sides, two sizes and both
\* directions of the price.
NextTrade ==
    \/ Open(MaxTradeSteps, Types, TradeLots)
    \/ Close(MaxTradeSteps)
    \/ Ticker(MaxTradeSteps, RandomChanges)
    \/ Clock(MaxTradeSteps)

SpecTrade == Init /\ [][NextTrade]_vars

\* Login requests, each resumed after its awaits in any order.
NextLogin ==
    \/ \E r \in Logins, accountNumber \in Accounts, password \in Passwords :
           LoginStart(r, accountNumber, password)
    \/ \E r \in Logins : LoginHashed(r)
    \/ \E r \in Logins : LoginCompared(r)

SpecLogin == Init /\ [][NextLogin]_vars

\* ---------------------------------------------------------- properties
\* The connections a call record names as registered and OPEN when the call was made.
RegisteredOpen(r) == r.registered \cap r.open

\* The message of call record r as a socket holds it.
Delivered(r) ==
    [call |-> r.call,
     msg |-> IF r.fn = "broadcastSignal" THEN SignalMsg(r.data) ELSE PositionMsg(r.data)]

\* A token the server did not sign, or none.
BadToken(t) == t.kind = "none" \/ t.signedWith # JWT_SECRET

Attempted(c) == readyState[c] # "NONE"

\* C1: in every broadcastPosition call, the connections the message goes to (it
\* is written to their socket, or their send is the one that throws) are exactly
\* those registered, OPEN and bound to the call's account.
C1_PositionToAccountIff ==
    \A k \in 1..Len(lastCalls) :
        lastCalls[k].fn = "broadcastPosition" =>
            \A c \in Conns :
                (lastCalls[k].got[c] # <<>> \/ c = lastCalls[k].thrower)
                    <=> c \in RegisteredOpen(lastCalls[k]) \cap lastCalls[k].bound

\* The half of C1 that holds whatever the sends do: a 'position' message is written
\* only to sockets registered, OPEN and bound to the call's account, once.
PositionOnlyToAccount ==
    \A k \in 1..Len(lastCalls) :
        lastCalls[k].fn = "broadcastPosition" =>
            \A c \in Conns :
                \/ lastCalls[k].got[c] = <<>>
                \/ /\ lastCalls[k].got[c] = <<Delivered(lastCalls[k])>>
                   /\ c \in RegisteredOpen(lastCalls[k]) \cap lastCalls[k].bound

\* C2: a connection made without a token, or with a token the server did not
\* sign, is closing or closed, is not in activeConnections and was sent nothing.
C2_RejectedNeverServed ==
    \A c \in Conns :
        Attempted(c) /\ BadToken(urlToken[c]) =>
            /\ readyState[c] \in {"CLOSING", "CLOSED"}
            /\ ~MapHas(activeConnections, c)
            /\ sent[c] = <<>>

\* a rejected connection, and a later one that was admitted and got a broadcast
C2_Witness ==
    \E c, d \in Conns :
        /\ c < d
        /\ Attempted(c) /\ BadToken(urlToken[c]) /\ readyState[c] = "CLOSED"
        /\ Len(sent[d]) >= 2

\* C3: when a send throws in a broadcast call, every other connection that was
\* registered, OPEN and (for a position) bound to the account got the message.
C3_FailureIsolated ==
    \A k \in 1..Len(lastCalls) :
        lastCalls[k].thrower # 0 =>
            \A c \in RegisteredOpen(lastCalls[k]) \ {lastCalls[k].thrower} :
                (lastCalls[k].fn = "broadcastPosition" => c \in lastCalls[k].bound)
                    => lastCalls[k].got[c] = <<Delivered(lastCalls[k])>>

\* C4: no connection whose 'close' event was emitted is in activeConnections.
C4_ClosedUnregistered ==
    \A c \in Conns : closeEmitted[c] => ~MapHas(activeConnections, c)

\* C5: in every broadcastSignal call, each connection registered and OPEN gets
\* the message once (or its send is the one that throws), whatever its account,
\* and every other connection gets nothing.
C5_SignalToAllOpen ==
    \A k \in 1..Len(lastCalls) :
        lastCalls[k].fn = "broadcastSignal" =>
            \A c \in Conns :
                IF c \in RegisteredOpen(lastCalls[k])
                THEN \/ lastCalls[k].got[c] = <<Delivered(lastCalls[k])>>
                     \/ c = lastCalls[k].thrower
                ELSE lastCalls[k].got[c] = <<>>

\* C6: the signals array never holds more than 50 entries.
C6_SignalsBounded == Len(signals) <= SignalCap

\* the array is full and a signal was evicted
C6_Witness == Len(signals) = SignalCap /\ Len(accepted) > SignalCap

\* C7: the signals array is the last min(n, 50) of the n signals accepted, in the
\* order in which they were accepted.
C7_FifoEviction ==
    /\ Len(signals) = Min(Len(accepted), SignalCap)
    /\ \A i \in 1..Len(signals) :
           signals[i] = accepted[Len(accepted) - Len(signals) + i]

\* the 51st signal was accepted: the first is gone, the second is now the oldest
C7_Witness ==
    /\ Len(accepted) = SignalCap + 1
    /\ signals[1] = accepted[2]
    /\ signals[SignalCap] = accepted[SignalCap + 1]
    /\ \A i \in 1..Len(signals) : signals[i] # accepted[1]

\* C8: a close request for a position of another account answers 404 and leaves
\* the positions alone; the owner's request answers 200 and removes that position
\* and no other, so that no listing shows it; and a position id that is not in
\* the map stays out of it in every step that is not an open request.
C8_Step ==
    /\ request'.op = "close" /\ MapHas(positions, request'.positionId) =>
           IF MapGet(positions, request'.positionId).accountNumber # request'.accountNumber
           THEN response' = 404 /\ positions' = positions
           ELSE /\ response' = 200
                /\ ~MapHas(positions', request'.positionId)
                /\ \A a \in Accounts :
                       /\ \A i \in 1..Len(ListPositions(positions', a)) :
                              ListPositions(positions', a)[i].id # request'.positionId
                       /\ \A i \in 1..Len(ListPositions(positions, a)) :
                              ListPositions(positions, a)[i].id # request'.positionId =>
                                  \E j \in 1..Len(ListPositions(positions', a)) :
                                      ListPositions(positions', a)[j] =
                                          ListPositions(positions, a)[i]
    /\ \A id \in MapKeys(positions') \ MapKeys(positions) :
           /\ response' \in {200, 500}
           /\ calls' = calls + 1
           /\ lastCalls'[1].fn = "broadcastPosition"
           /\ lastCalls'[1].data.id = id

C8_CloseByOwnerOnly == [][C8_Step]_vars

\* a close request for a position of another account was refused
C8_Witness ==
    /\ request.op = "close"
    /\ response = 404
    /\ MapHas(positions, request.positionId)
    /\ MapGet(positions, request.positionId).accountNumber # request.accountNumber

\* C9: every connection holds its messages in the order of the broadcast calls
\* that sent them.
C9_CallOrder ==
    \A c \in Conns :
        \A i, j \in 1..Len(sent[c]) :
            i < j /\ sent[c][i].msg.type # "init" /\ sent[c][j].msg.type # "init"
                => sent[c][i].call < sent[c][j].call

\* a connection that got a signal and then a position from the ticker
C9_Witness ==
    \E c \in Conns :
        \E i, j \in 1..Len(sent[c]) :
            /\ i < j
            /\ sent[c][i].msg.type = "signal"
            /\ sent[c][j].msg.type = "position"
            /\ sent[c][j].msg.data.currentPrice # StartPrice

\* C10: the process never terminates on an exception.
C10_NeverCrashes == ~crashed

\* C11: an HTTP handler that made its broadcast call (its state change was applied
\* before the call) answers success, whatever the sends of that call did.
C11_SendFailureNotPropagated ==
    response # 0 /\ lastCalls # <<>> => response = 200

\* C12: a connection made with a token the server signed is registered and sent
\* 'init' with the last min(10, n) of the n signals stored then, in their order
\* (the send is made: its message is written, or it throws and the handler closes
\* the socket); and on every socket 'init' is the first message and no other is.
C12_Step ==
    /\ \A c \in Conns :
           readyState[c] = "NONE" /\ readyState'[c] # "NONE" /\ ~BadToken(urlToken'[c]) =>
               /\ MapHas(activeConnections', c)
               /\ \/ /\ Len(sent'[c]) = 1
                     /\ sent'[c][1].msg.type = "init"
                     /\ Len(sent'[c][1].msg.signals) = Min(InitSlice, Len(signals))
                     /\ \A i \in 1..Len(sent'[c][1].msg.signals) :
                            sent'[c][1].msg.signals[i] =
                                signals[Len(signals) - Len(sent'[c][1].msg.signals) + i]
                  \/ /\ sent'[c] = <<>>
                     /\ readyState'[c] = "CLOSING"
                     /\ ~closeListener'[c]
    /\ \A c \in Conns :
           \A i \in 1..Len(sent'[c]) : sent'[c][i].msg.type = "init" <=> i = 1

C12_InitSnapshot == [][C12_Step]_vars

\* a client that arrived when more than ten signals were stored, got the last ten
\* of them, and then a signal
C12_Witness ==
    /\ Len(sent[1]) >= 2
    /\ Len(sent[1][1].msg.signals) = InitSlice
    /\ sent[1][1].msg.signals[1] # accepted[1]
    /\ sent[1][2].msg.type = "signal"

\* C13: the keys of activeConnections are the connections admitted so far (their
\* token verified) less those whose close handler has run.
C13_RegistryKeys ==
    MapKeys(activeConnections) =
        {c \in Conns : Attempted(c) /\ ~BadToken(urlToken[c])}
            \ {c \in Conns : closeListener[c] /\ closeEmitted[c]}

\* one admitted connection's close handler has run while another is registered
C13_Witness ==
    \E c, d \in Conns :
        /\ ~BadToken(urlToken[c]) /\ closeListener[c] /\ closeEmitted[c]
        /\ MapHas(activeConnections, d)

\* C14: GET /api/signals answered at time now returns the stored signals whose age
\* now - timestamp is below 3,600,000 ms, each once, in storage order, and nothing
\* else.
C14_RecentOnly ==
    body.json = "signals" =>
        LET recent == {i \in 1..Len(signals) : now - signals[i].timestamp < 3600000}
            Nth(k) == CHOOSE i \in recent : Cardinality({j \in recent : j <= i}) = k
        IN /\ response = 200
           /\ Len(body.items) = Cardinality(recent)
           /\ \A k \in 1..Len(body.items) : body.items[k] = signals[Nth(k)]

\* a read that left out a signal exactly as old as the window and one older, and
\* returned two younger ones
C14_Witness ==
    /\ body.json = "signals"
    /\ Len(body.items) = 2
    /\ \E i \in 1..Len(signals) : now - signals[i].timestamp = RecentWindow
    /\ \E i \in 1..Len(signals) : now - signals[i].timestamp > RecentWindow

\* The handler that ran last was a tick of the ticker.
Ticked == response = 0 /\ lastCalls # <<>>

\* C15: after a tick, every position it processed (all of them, unless an
\* exception ended the tick) has profit (currentPrice - entryPrice) * lots * 100
\* when BUY and (entryPrice - currentPrice) * lots * 100 otherwise, with the price
\* the tick gave it; long, entry 3893.45, current 3900.00, size 1 gives 655.00.
C15_Step ==
    /\ Ticked' =>
           /\ ~crashed' => Len(lastCalls') = Len(positions')
           /\ \A i \in 1..Len(lastCalls') :
                  LET p == positions'[i].val
                  IN /\ p.currentPrice # positions[i].val.currentPrice
                     /\ p.profit = IF p.type = "BUY"
                                   THEN (p.currentPrice - p.entryPrice) * p.lots * 100
                                   ELSE (p.entryPrice - p.currentPrice) * p.lots * 100
    /\ UpdatePosition(NewPosition("acc1", "BUY", 1, 1, 1), 390000 - StartPrice).profit = 65500

C16_Step ==
    \A id \in MapKeys(positions) \cap MapKeys(positions') :
        MapGet(positions', id).accountNumber = MapGet(positions, id).accountNumber

C16_OwnerNeverChanges == [][C16_Step]_vars

\* C17: a tick makes one broadcastPosition call for each position that was in the
\* Map when it started, in the Map's order, after moving its price, with the
\* position's own account.
C17_Step ==
    Ticked' =>
        /\ Len(lastCalls') = Len(positions)
        /\ \A i \in 1..Len(lastCalls') :
               /\ positions'[i].key = positions[i].key
               /\ positions'[i].val.currentPrice # positions[i].val.currentPrice
               /\ lastCalls'[i].data = positions'[i].val
               /\ lastCalls'[i].account = positions[i].val.accountNumber

C17_EveryPositionOnce == [][C17_Step]_vars

\* C18: a position removed by a successful close is in no broadcast call of any
\* later handler, the ticker's included, and is not in the Map, where alone the
\* ticker changes prices and profits.
C18_ClosedStaysClosed ==
    /\ \A i \in 1..Len(positions) : positions[i].val.ref \notin closedRefs
    /\ \A k \in 1..Len(lastCalls) :
           lastCalls[k].fn = "broadcastPosition" => lastCalls[k].data.ref \notin closedRefs

\* after a close, a tick whose message reached a connection
C18_Witness ==
    /\ closedRefs # {}
    /\ Ticked
    /\ \E c \in Conns : lastCalls[1].got[c] # <<>>

\* The user stored for an account stays the one stored first.
CredentialKept ==
    \A a \in MapKeys(users) : MapHas(users', a) /\ MapGet(users', a) = MapGet(users, a)

\* No two logins for one account with different passwords both got a token.
TokensAgree ==
    \A r, q \in Logins :
        /\ logins[r].status = 200 /\ logins[q].status = 200
        /\ logins[r].accountNumber = logins[q].accountNumber
        => logins[r].password = logins[q].password

\* C19: whatever the order in which login requests resume, the user stored for an
\* account is never replaced, and no two logins for one account with different
\* passwords both get a token.
C19_Step == CredentialKept /\ TokensAgree'

C19_LoginRace == [][C19_Step]_vars

\* C20: an ingest request answered with an error (401 or 500) leaves the signals
\* array as it was and writes nothing to any socket.
C20_Step ==
    request'.op = "ingest" /\ response' \in {401, 500} =>
        /\ signals' = signals
        /\ sent' = sent

C20_ErrorChangesNothing == [][C20_Step]_vars

====
